---- MODULE Spec2Model ----
(***************************************************************************)
(* The two-bar assignment-inference trial of visual_texture_semdist:       *)
(* BarChoicePlugin (src/jsPsych/assignment-inferenceAC.js) and             *)
(* BarImageChoicePlugin (src/unnamed/part_000).  One trial() call, the     *)
(* keyboard and timer callbacks it registers with the jsPsych host, and    *)
(* the trial_data it hands to jsPsych.finishTrial.                         *)
(***************************************************************************)
EXTENDS Integers, Sequences, FiniteSets, TLC

VARIABLES
    pc,               \* "constructed" | "awaiting" (trial() returned) | "threw"
    plugin,           \* "bar" | "image": which class's trial() ran
    trial,            \* the trial parameter object passed to trial()
    left_height,      \* const left_height
    right_height,     \* const right_height
    left_jitter,      \* const left_jitter
    right_jitter,     \* const right_jitter
    final_left,       \* const final_left
    final_right,      \* const final_right
    display_element,  \* display_element.innerHTML: "" or the rendered stimulus
    response,         \* let response = {rt, key}
    keyboardListener, \* var keyboardListener (Undefined until assigned)
    listener,         \* host: "none" | "active" | "removed"
    timer,            \* host: "none" | "pending" | "cleared" | "fired"
    finished,         \* host: the trial_data records passed to jsPsych.finishTrial
    captures,         \* history: the info objects the host passed to after_response
    twin              \* a BarImageChoicePlugin trial run beside the bar trial: its
                      \* closure variables and host handles, as one record

vars == <<pc, plugin, trial, left_height, right_height, left_jitter, right_jitter,
          final_left, final_right, display_element, response, keyboardListener,
          listener, timer, finished, captures, twin>>

-----------------------------------------------------------------------------
(* Bounds of the model.                                                    *)

\* Range endpoints are drawn from 0..MaxHeight.
MaxHeight == 1
\* The jitter parameter is drawn from -1..MaxJitter.
MaxJitter == 1
\* Math.random() is k / RandDen for k in 0..RandDen-1.
RandDen == 4
\* Reaction times are drawn from 1..MaxRt.
MaxRt == 2
\* A host whose cancellation is only best effort delivers at most
\* MaxCaptures key responses to after_response.
MaxCaptures == 2

-----------------------------------------------------------------------------
(* JavaScript values.                                                      *)

\* null
Null == <<>>
\* a non-null value v
Some(v) == <<v>>
\* undefined: an array index out of range, a var never assigned
Undefined == <<"undefined", "undefined">>

\* an exception thrown by a host call
Throw == <<"throw", "throw">>

\* arr[i] with JavaScript's 0-based index; undefined out of range
At(arr, i) == IF i + 1 \in DOMAIN arr THEN Some(arr[i + 1]) ELSE Undefined

\* Math.round(num / den) for den > 0: floor(x + 0.5), halves go up
MathRound(num, den) == (2 * num + den) \div (2 * den)

\* The string "NO_KEYS"; the one-element array ["NO_KEYS"] is the same to
\* the loose comparison trial.choices != "NO_KEYS", so one value stands for both.
NO_KEYS == <<"NO_KEYS">>

-----------------------------------------------------------------------------
(* Trial parameters.                                                       *)

Ranges == {<<lo, hi>> : lo \in 0..MaxHeight, hi \in 0..MaxHeight}
Jitters == -1..MaxJitter
ChoiceSets == {NO_KEYS, <<>>, <<"f">>, <<"f", "j">>, <<"j", "f">>, <<"f", "f">>,
               <<"f", "j", "k">>}
Sides == {Null, Some("left"), Some("right")}
Durations == {Null, Some(2000)}
Plugins == {"bar", "image"}

\* The parameters each plugin's info block declares (src lines 35-96 / 35-87),
\* with the rendering parameters at fixed values.
TrialParams(p, lr, rr, j, ch, cs, td, ret) ==
    IF p = "bar"
    THEN [prompt |-> Some("concept"), left_height_range |-> lr,
          right_height_range |-> rr, jitter |-> j,
          left_color |-> "#3498db", right_color |-> "#e74c3c",
          bg_color |-> "#ffffff", choices |-> ch, correct_side |-> cs,
          trial_duration |-> td, response_ends_trial |-> ret]
    ELSE [prompt |-> Some("concept"), left_image |-> Some("left.png"),
          right_image |-> Some("right.png"), left_height_range |-> lr,
          right_height_range |-> rr, jitter |-> j,
          bg_color |-> "#ffffff", choices |-> ch, correct_side |-> cs,
          trial_duration |-> td, response_ends_trial |-> ret]

\* Inputs of the control-flow specification: every choices / correct_side /
\* trial_duration / response_ends_trial combination, one fixed stimulus.
ControlInputs ==
    {<<p, TrialParams(p, <<0, 0>>, <<0, 0>>, 0, ch, cs, td, ret)>> :
        p \in Plugins, ch \in ChoiceSets, cs \in Sides, td \in Durations,
        ret \in BOOLEAN}

\* Inputs of the stimulus specification: every range pair and jitter bound,
\* the default choices.
StimulusInputs ==
    {<<p, TrialParams(p, lr, rr, j, <<"f", "j">>, Null, Some(2000), ret)>> :
        p \in Plugins, lr \in Ranges, rr \in Ranges, j \in Jitters,
        ret \in BOOLEAN}

\* Inputs of the validation specification: valid and invalid ranges, jitter
\* bounds and choices side by side.
ValidationInputs ==
    {<<p, TrialParams(p, lr, <<0, 0>>, j, ch, Null, td, TRUE)>> :
        p \in Plugins, lr \in {<<0, 0>>, <<1, 0>>}, j \in {-1, 0},
        ch \in ChoiceSets, td \in Durations}

\* Inputs of the two-plugin specification: the parameters the two plugins
\* share, over every control combination and a jittered stimulus.
PairInputs ==
    {<<lr, <<0, 0>>, j, ch, cs, td, ret>> :
        lr \in {<<0, 1>>}, j \in {0, 1}, ch \in ChoiceSets, cs \in Sides,
        td \in Durations, ret \in BOOLEAN}

-----------------------------------------------------------------------------
(* The host (jsPsych) as the plugins use it.                               *)

\* jsPsych.randomization.randomInt(lower, upper): an integer of lower..upper.
\* For upper < lower the host either throws or computes
\* lower + floor(Math.random() * (upper - lower + 1)), a value of upper+1..lower.
randomInt(lower, upper) ==
    IF lower <= upper THEN {Some(n) : n \in lower..upper}
    ELSE {Throw} \cup {Some(n) : n \in (upper + 1)..lower}

\* Mutant of jitterOf: the "- 1" that centres the jitter is missing.
jitterOf_uncentred(k, jitter) == MathRound(2 * k * jitter, RandDen)

\* Math.round((Math.random() * 2 - 1) * jitter), Math.random() = k / RandDen
jitterOf(k, jitter) == MathRound((2 * k - RandDen) * jitter, RandDen)

\* jsPsych.pluginAPI.clearAllTimeouts()
clearAllTimeouts(t) == IF t = "pending" THEN "cleared" ELSE t

\* jsPsych.pluginAPI.cancelKeyboardResponse(keyboardListener)
cancelKeyboardResponse(l) == IF l = "active" THEN "removed" ELSE l

\* The keys the listener accepts: valid_responses: trial.choices
validResponses(ch) == {ch[i] : i \in DOMAIN ch}

-----------------------------------------------------------------------------
(* end_trial's derivation of the result, once per plugin.                  *)

\* Mutant of chosen_side_bar: choices[1] is tested before choices[0].
chosen_side_bar_rightFirst(resp, tr) ==
    IF resp.key # Null
    THEN IF resp.key = At(tr.choices, 1) THEN Some("right")
         ELSE IF resp.key = At(tr.choices, 0) THEN Some("left")
         ELSE Null
    ELSE Null

\* BarChoicePlugin: let chosen_side = null; if (response.key !== null) ...
chosen_side_bar(resp, tr) ==
    IF resp.key # Null
    THEN IF resp.key = At(tr.choices, 0) THEN Some("left")
         ELSE IF resp.key = At(tr.choices, 1) THEN Some("right")
         ELSE Null
    ELSE Null

\* Mutant of accuracy_bar: the chosen_side !== null test is missing.
accuracy_bar_unguarded(chosen, tr) ==
    IF tr.correct_side # Null
    THEN IF chosen = tr.correct_side THEN Some(1) ELSE Some(0)
    ELSE Null

\* BarChoicePlugin: let accuracy = null; if (trial.correct_side !== null && ...
accuracy_bar(chosen, tr) ==
    IF tr.correct_side # Null /\ chosen # Null
    THEN IF chosen = tr.correct_side THEN Some(1) ELSE Some(0)
    ELSE Null

\* Mutant of trial_data_bar: the sampled height is reported instead of the
\* jittered one (final_left without left_jitter).
trial_data_bar_unjittered(resp, tr, fl, fr, lj, rj) ==
    LET chosen == chosen_side_bar(resp, tr) IN
    [rt |-> resp.rt, key |-> resp.key, prompt |-> tr.prompt,
     chosen_side |-> chosen, correct_side |-> tr.correct_side,
     accuracy |-> accuracy_bar(chosen, tr),
     final_left |-> fl - lj, final_right |-> fr,
     left_color |-> tr.left_color, right_color |-> tr.right_color,
     left_jitter |-> lj, right_jitter |-> rj]

\* BarChoicePlugin: const trial_data = {...}
trial_data_bar(resp, tr, fl, fr, lj, rj) ==
    LET chosen == chosen_side_bar(resp, tr) IN
    [rt |-> resp.rt, key |-> resp.key, prompt |-> tr.prompt,
     chosen_side |-> chosen, correct_side |-> tr.correct_side,
     accuracy |-> accuracy_bar(chosen, tr),
     final_left |-> fl, final_right |-> fr,
     left_color |-> tr.left_color, right_color |-> tr.right_color,
     left_jitter |-> lj, right_jitter |-> rj]

\* Mutant of chosen_side_image: the response.key !== null test is missing and
\* the second branch is a plain else.
chosen_side_image_noNullCheck(resp, tr) ==
    IF resp.key = At(tr.choices, 0) THEN Some("left") ELSE Some("right")

\* BarImageChoicePlugin: let chosen_side = null; if (response.key !== null) ...
chosen_side_image(resp, tr) ==
    IF resp.key # Null
    THEN IF resp.key = At(tr.choices, 0) THEN Some("left")
         ELSE IF resp.key = At(tr.choices, 1) THEN Some("right")
         ELSE Null
    ELSE Null

\* BarImageChoicePlugin: let accuracy = null; if (trial.correct_side !== null ...
accuracy_image(chosen, tr) ==
    IF tr.correct_side # Null /\ chosen # Null
    THEN IF chosen = tr.correct_side THEN Some(1) ELSE Some(0)
    ELSE Null

\* BarImageChoicePlugin: const trial_data = {...}
trial_data_image(resp, tr, fl, fr, lj, rj) ==
    LET chosen == chosen_side_image(resp, tr) IN
    [rt |-> resp.rt, key |-> resp.key, prompt |-> tr.prompt,
     chosen_side |-> chosen, correct_side |-> tr.correct_side,
     accuracy |-> accuracy_image(chosen, tr),
     final_left |-> fl, final_right |-> fr,
     left_image |-> tr.left_image, right_image |-> tr.right_image,
     left_jitter |-> lj, right_jitter |-> rj]

\* The record the running plugin builds from the closure's variables.
trial_data(resp) ==
    IF plugin = "bar"
    THEN trial_data_bar(resp, trial, final_left, final_right, left_jitter, right_jitter)
    ELSE trial_data_image(resp, trial, final_left, final_right, left_jitter, right_jitter)

-----------------------------------------------------------------------------
(* The closures of trial().                                                *)

\* Mutant of releaseListener: the cancelKeyboardResponse call is missing.
releaseListener_keepsListening(kl, lst) == lst

\* if (typeof keyboardListener !== "undefined") cancelKeyboardResponse(...)
releaseListener(kl, lst) ==
    IF kl # Undefined THEN cancelKeyboardResponse(lst) ELSE lst

\* Mutant of end_trial: the clearAllTimeouts() call is missing.
end_trial_keepsTimeouts(resp, lst, tmr) ==
    /\ timer' = tmr
    /\ listener' = releaseListener(keyboardListener, lst)
    /\ display_element' = ""
    /\ finished' = Append(finished, trial_data(resp))

\* const end_trial = () => {...}, called with the response slot as it is and
\* the host's listener and timer states at the call.
end_trial(resp, lst, tmr) ==
    /\ timer' = clearAllTimeouts(tmr)
    /\ listener' = releaseListener(keyboardListener, lst)
    /\ display_element' = ""
    /\ finished' = Append(finished, trial_data(resp))

\* Mutant of storeResponse: the response.key === null guard is missing.
storeResponse_overwrite(resp, info) == info

\* Mutant of storeResponse: only the key is copied, not the whole info object.
storeResponse_keyOnly(resp, info) ==
    IF resp.key = Null THEN [resp EXCEPT !.key = info.key] ELSE resp

\* if (response.key === null) response = info;
storeResponse(resp, info) == IF resp.key = Null THEN info ELSE resp

\* Mutant of after_response: response_ends_trial is ignored.
after_response_neverEnds(info, lst) ==
    /\ response' = storeResponse(response, info)
    /\ captures' = Append(captures, info)
    /\ listener' = lst
    /\ UNCHANGED <<timer, display_element, finished>>

\* Mutant of after_response: end_trial is called whatever response_ends_trial is.
after_response_alwaysEnds(info, lst) ==
    LET stored == storeResponse(response, info) IN
    /\ response' = stored
    /\ captures' = Append(captures, info)
    /\ end_trial(stored, lst, timer)

\* const after_response = (info) => {...}
after_response(info, lst) ==
    LET stored == storeResponse(response, info) IN
    /\ response' = stored
    /\ captures' = Append(captures, info)
    /\ IF trial.response_ends_trial
       THEN end_trial(stored, lst, timer)
       ELSE /\ listener' = lst
            /\ UNCHANGED <<timer, display_element, finished>>

\* if (trial.choices != "NO_KEYS")
startsListener(tr) == tr.choices # NO_KEYS

\* Mutant of startsTimer: the timer is set up only inside the listener's block.
startsTimer_onlyWithListener(tr) ==
    tr.trial_duration # Null /\ tr.choices # NO_KEYS

\* if (trial.trial_duration !== null)
startsTimer(tr) == tr.trial_duration # Null

-----------------------------------------------------------------------------
(* BarImageChoicePlugin's trial() and closures over the record `twin`.      *)

\* A constructed BarImageChoicePlugin whose trial() has not run.
image_constructed ==
    [pc |-> "constructed", trial |-> Null,
     left_height |-> 0, right_height |-> 0, left_jitter |-> 0, right_jitter |-> 0,
     final_left |-> 0, final_right |-> 0, display_element |-> "",
     response |-> [rt |-> Null, key |-> Null], keyboardListener |-> Undefined,
     listener |-> "none", timer |-> "none", finished |-> <<>>]

\* BarImageChoicePlugin: const end_trial = () => {...}
image_end_trial(s) ==
    [s EXCEPT
       !.timer = clearAllTimeouts(@),
       !.listener = IF s.keyboardListener # Undefined
                    THEN cancelKeyboardResponse(@) ELSE @,
       !.display_element = "",
       !.finished = Append(@, trial_data_image(s.response, s.trial, s.final_left,
                                               s.final_right, s.left_jitter,
                                               s.right_jitter))]

\* Mutant of image_after_response: response_ends_trial is ignored.
image_after_response_neverEnds(s, info) ==
    [s EXCEPT !.response = IF s.response.key = Null THEN info ELSE @]

\* BarImageChoicePlugin: const after_response = (info) => {...}
image_after_response(s, info) ==
    LET stored == [s EXCEPT !.response = IF s.response.key = Null THEN info ELSE @]
    IN  IF s.trial.response_ends_trial THEN image_end_trial(stored) ELSE stored

\* BarImageChoicePlugin: trial(display_element, trial) with parameters tr and
\* the host's randomInt and Math.random() results as in TrialWith.
image_trial(s, tr, lh, rh, kl, kr) ==
    IF lh = Throw \/ rh = Throw
    THEN [s EXCEPT !.pc = "threw", !.trial = tr]
    ELSE [s EXCEPT
            !.pc = "awaiting", !.trial = tr,
            !.left_height = lh[1], !.right_height = rh[1],
            !.left_jitter = jitterOf(kl, tr.jitter),
            !.right_jitter = jitterOf(kr, tr.jitter),
            !.final_left = lh[1] + jitterOf(kl, tr.jitter),
            !.final_right = rh[1] + jitterOf(kr, tr.jitter),
            !.display_element = "stimulus",
            !.response = [rt |-> Null, key |-> Null],
            !.keyboardListener = IF tr.choices # NO_KEYS THEN Some("listener")
                                 ELSE Undefined,
            !.listener = IF tr.choices # NO_KEYS THEN "active" ELSE "none",
            !.timer = IF tr.trial_duration # Null THEN "pending" ELSE "none"]

-----------------------------------------------------------------------------
(* Actions.                                                                *)

Init ==
    /\ pc = "constructed"
    /\ plugin = "none"
    /\ trial = Null
    \* the closure's consts do not exist before trial() runs: 0 stands in
    /\ left_height = 0 /\ right_height = 0
    /\ left_jitter = 0 /\ right_jitter = 0
    /\ final_left = 0 /\ final_right = 0
    /\ display_element = ""
    /\ response = [rt |-> Null, key |-> Null]
    /\ keyboardListener = Undefined
    /\ listener = "none"
    /\ timer = "none"
    /\ finished = <<>>
    /\ captures = <<>>
    /\ twin = image_constructed

\* trial(display_element, trial) of plugin p with parameters tr, the host's
\* randomInt returning lh and rh and Math.random() returning kl / RandDen and
\* kr / RandDen.
TrialWith(p, tr, lh, rh, kl, kr) ==
    /\ plugin' = p
    /\ trial' = tr
    /\ IF lh = Throw \/ rh = Throw
       THEN /\ pc' = "threw"
            /\ UNCHANGED <<left_height, right_height, left_jitter, right_jitter,
                           final_left, final_right, display_element, response,
                           keyboardListener, listener, timer, finished, captures>>
       ELSE /\ pc' = "awaiting"
            /\ left_height' = lh[1]
            /\ right_height' = rh[1]
            /\ left_jitter' = jitterOf(kl, tr.jitter)
            /\ right_jitter' = jitterOf(kr, tr.jitter)
            /\ final_left' = lh[1] + jitterOf(kl, tr.jitter)
            /\ final_right' = rh[1] + jitterOf(kr, tr.jitter)
            /\ display_element' = "stimulus"
            /\ response' = [rt |-> Null, key |-> Null]
            /\ keyboardListener' = IF startsListener(tr) THEN Some("listener")
                                   ELSE Undefined
            /\ listener' = IF startsListener(tr) THEN "active" ELSE "none"
            /\ timer' = IF startsTimer(tr) THEN "pending" ELSE "none"
            /\ UNCHANGED <<finished, captures>>

\* trial(display_element, trial): the whole call, for one input of `inputs`.
Trial(inputs) ==
    /\ pc = "constructed"
    /\ \E inp \in inputs :
       LET tr == inp[2] IN
       \E lh \in randomInt(tr.left_height_range[1], tr.left_height_range[2]),
          rh \in randomInt(tr.right_height_range[1], tr.right_height_range[2]),
          kl \in 0..(RandDen - 1), kr \in 0..(RandDen - 1) :
          TrialWith(inp[1], tr, lh, rh, kl, kr)
    /\ UNCHANGED twin

\* The host captures a valid key: the listener (persist: false) is removed
\* and after_response is called with {key, rt}.
KeyPress ==
    /\ pc = "awaiting"
    /\ listener = "active"
    /\ \E key \in validResponses(trial.choices), rt \in 1..MaxRt :
          after_response([rt |-> Some(rt), key |-> Some(key)], "removed")
    /\ UNCHANGED <<pc, plugin, trial, left_height, right_height, left_jitter,
                   right_jitter, final_left, final_right, keyboardListener, twin>>

\* The host's timer elapses and calls end_trial.
Timeout ==
    /\ pc = "awaiting"
    /\ timer = "pending"
    /\ end_trial(response, listener, "fired")
    /\ UNCHANGED <<pc, plugin, trial, left_height, right_height, left_jitter,
                   right_jitter, final_left, final_right, keyboardListener,
                   response, captures, twin>>

\* A host whose cancelKeyboardResponse is only best effort: a key event
\* reaches after_response although the listener was removed.
LateKeyPress ==
    /\ pc = "awaiting"
    /\ listener = "removed"
    /\ Len(captures) < MaxCaptures
    /\ \E key \in validResponses(trial.choices), rt \in 1..MaxRt :
          after_response([rt |-> Some(rt), key |-> Some(key)], "removed")
    /\ UNCHANGED <<pc, plugin, trial, left_height, right_height, left_jitter,
                   right_jitter, final_left, final_right, keyboardListener, twin>>

\* A host whose clearAllTimeouts is only best effort: the timer callback
\* runs although it was cleared.
LateTimeout ==
    /\ pc = "awaiting"
    /\ timer = "cleared"
    /\ end_trial(response, listener, "fired")
    /\ UNCHANGED <<pc, plugin, trial, left_height, right_height, left_jitter,
                   right_jitter, final_left, final_right, keyboardListener,
                   response, captures, twin>>

\* The control flow under a host that honours cancellation.
Next == Trial(ControlInputs) \/ KeyPress \/ Timeout
Spec == Init /\ [][Next]_vars

\* The stimulus computation over every range pair and jitter bound.
NextStimulus == Trial(StimulusInputs) \/ KeyPress \/ Timeout
SpecStimulus == Init /\ [][NextStimulus]_vars

\* The control flow under a host whose cancellation is best effort.
NextBestEffort ==
    Trial(ControlInputs) \/ KeyPress \/ Timeout \/ LateKeyPress \/ LateTimeout
SpecBestEffort == Init /\ [][NextBestEffort]_vars

\* Valid and invalid configurations under a host that honours cancellation.
NextValidation == Trial(ValidationInputs) \/ KeyPress \/ Timeout
SpecValidation == Init /\ [][NextValidation]_vars

\* The control flow under a host that honours cancellation and fires every
\* timer that stays scheduled: setTimeout's callback runs unless cleared.
SpecLive == Init /\ [][Next]_vars /\ WF_vars(Timeout)

\* Both plugins' trial() called with the same shared parameters, the host
\* returning the same random numbers to both.
PairTrial ==
    /\ pc = "constructed"
    /\ \E c \in PairInputs :
       LET bar == TrialParams("bar", c[1], c[2], c[3], c[4], c[5], c[6], c[7])
           img == TrialParams("image", c[1], c[2], c[3], c[4], c[5], c[6], c[7])
       IN  \E lh \in randomInt(c[1][1], c[1][2]), rh \in randomInt(c[2][1], c[2][2]),
              kl \in 0..(RandDen - 1), kr \in 0..(RandDen - 1) :
              /\ TrialWith("bar", bar, lh, rh, kl, kr)
              /\ twin' = image_trial(twin, img, lh, rh, kl, kr)

\* The same key event delivered to both trials: each host-side listener that
\* is active is removed (persist: false) and its after_response is called.
PairKeyPress ==
    /\ pc = "awaiting"
    /\ listener = "active"
    /\ \E key \in validResponses(trial.choices), rt \in 1..MaxRt :
       LET info == [rt |-> Some(rt), key |-> Some(key)] IN
          /\ after_response(info, "removed")
          /\ twin' = IF twin.listener = "active"
                     THEN image_after_response([twin EXCEPT !.listener = "removed"], info)
                     ELSE twin
    /\ UNCHANGED <<pc, plugin, trial, left_height, right_height, left_jitter,
                   right_jitter, final_left, final_right, keyboardListener>>

\* The trial duration elapsing for both trials: each pending timer fires and
\* calls its end_trial.
PairTimeout ==
    /\ pc = "awaiting"
    /\ timer = "pending"
    /\ end_trial(response, listener, "fired")
    /\ twin' = IF twin.timer = "pending"
               THEN image_end_trial([twin EXCEPT !.timer = "fired"])
               ELSE twin
    /\ UNCHANGED <<pc, plugin, trial, left_height, right_height, left_jitter,
                   right_jitter, final_left, final_right, keyboardListener,
                   response, captures>>

\* A bar trial and an image trial side by side, fed the same parameters,
\* random numbers and events, under a host that honours cancellation.
NextPair == PairTrial \/ PairKeyPress \/ PairTimeout
SpecPair == Init /\ [][NextPair]_vars

-----------------------------------------------------------------------------
(* Properties.                                                             *)

\* trial() has run to its end and the trial is live.
Started == pc = "awaiting"
\* The records passed to jsPsych.finishTrial so far.
Reported == {finished[i] : i \in DOMAIN finished}
\* The last record passed to jsPsych.finishTrial, in the next state.
LastReported == finished'[Len(finished')]

\* C1: under a host that honours cancelKeyboardResponse and
\* clearAllTimeouts, jsPsych.finishTrial is called at most once per trial(),
\* whatever the configuration and the order of key presses and timeouts.
C1_AtMostOneResult == Len(finished) <= 1

\* C1 witness: a trial that raced a listener against a timer and was ended
\* by the key press, with its one result reported.
C1_Witness ==
    /\ Started /\ Len(finished) = 1
    /\ listener = "removed" /\ timer = "cleared" /\ Len(captures) = 1

\* C2: when the response callback and the timeout callback of one trial
\* both fire, in either order, the second firing is a no-op: once a result
\* is reported, the other callback's firing (the timer's, or the first and
\* only key capture) reports no other and leaves the reported one as it is.
C2_SecondFiringNoOp ==
    [][(Len(finished) >= 1 /\ Len(captures') <= 1) => finished' = finished]_vars

\* C3 as stated: in every reported result chosen_side is "left" iff the key
\* equals choices[0], "right" iff it equals choices[1], null otherwise.
C3_SideIffChoice ==
    \A d \in Reported :
        /\ (d.chosen_side = Some("left")) <=> (d.key = At(trial.choices, 0))
        /\ (d.chosen_side = Some("right")) <=> (d.key = At(trial.choices, 1))
        /\ d.chosen_side \in {Some("left"), Some("right"), Null}
        /\ d.key = Null => d.chosen_side = Null

\* C3 as amended: chosen_side is "left" iff the key equals choices[0],
\* "right" iff the key equals choices[1] and differs from choices[0], and
\* null for any other token or when no key was captured.
C3_SideIffChoiceLeftFirst ==
    \A d \in Reported :
        /\ (d.chosen_side = Some("left")) <=> (d.key = At(trial.choices, 0))
        /\ (d.chosen_side = Some("right")) <=>
               (d.key = At(trial.choices, 1) /\ d.key # At(trial.choices, 0))
        /\ d.chosen_side \in {Some("left"), Some("right"), Null}
        /\ d.key = Null => d.chosen_side = Null

\* C3 witness: a result whose key equals both choices[0] and choices[1].
C3_Witness ==
    \E d \in Reported :
        /\ d.key # Null
        /\ d.key = At(trial.choices, 0) /\ d.key = At(trial.choices, 1)
        /\ d.chosen_side = Some("left")

\* C4: in every reported result accuracy is 0 or 1 iff both correct_side and
\* chosen_side are non-null, it is 1 iff they are non-null and equal, and it
\* is null when correct_side is null or there was no response.
C4_AccuracyDefinedIffBoth ==
    \A d \in Reported :
        /\ d.accuracy \in {Null, Some(0), Some(1)}
        /\ (d.accuracy # Null) <=> (d.correct_side # Null /\ d.chosen_side # Null)
        /\ (d.accuracy = Some(1)) <=>
               (d.correct_side # Null /\ d.chosen_side = d.correct_side)
        /\ (d.correct_side = Null \/ d.key = Null) => d.accuracy = Null

\* C4 witness: a scored result whose chosen side is not the correct side.
C4_Witness ==
    \E d \in Reported :
        d.accuracy = Some(0) /\ d.chosen_side # Null /\ d.correct_side # Null

\* C5: with response_ends_trial false and trial_duration set, a step that
\* captures a key reports nothing; a result is reported only by the step in
\* which the timer fires, and its key and rt are those of the first capture
\* (null if there was none), whatever was captured later.
C5_TimerReportsFirstCapture ==
    [][(Started /\ ~trial.response_ends_trial /\ trial.trial_duration # Null) =>
         /\ captures' # captures => finished' = finished
         /\ finished' # finished =>
              /\ timer = "pending" /\ timer' = "fired"
              /\ Len(finished') = Len(finished) + 1
              /\ IF captures = <<>>
                 THEN LastReported.key = Null /\ LastReported.rt = Null
                 ELSE /\ LastReported.key = captures[1].key
                      /\ LastReported.rt = captures[1].rt]_vars

\* C5 witness: two different captures, then the timer's report carrying the
\* first one.
C5_Witness ==
    /\ Started /\ ~trial.response_ends_trial /\ trial.trial_duration # Null
    /\ Len(captures) = 2 /\ captures[1] # captures[2]
    /\ response = captures[1]
    /\ timer = "fired" /\ Len(finished) = 1
    /\ finished[1].key = captures[1].key /\ finished[1].rt = captures[1].rt

\* C6: with response_ends_trial true, the step that captures the first key
\* reports the result with that key and rt and leaves no timer pending, and
\* a timer once cleared stays cleared: it never fires afterwards.
C6_ResponseEndsTrial ==
    [][(Started /\ trial.response_ends_trial) =>
         /\ (captures = <<>> /\ captures' # <<>>) =>
              /\ Len(finished') = Len(finished) + 1
              /\ LastReported.key = captures'[1].key
              /\ LastReported.rt = captures'[1].rt
              /\ LastReported.key # Null /\ LastReported.rt # Null
              /\ timer' \in {"none", "cleared"}
              /\ trial.trial_duration # Null => timer' = "cleared"
         /\ timer = "cleared" => timer' = "cleared"]_vars

\* C6 witness: a key press ended a trial whose timer was scheduled.
C6_Witness ==
    /\ Started /\ trial.response_ends_trial /\ trial.trial_duration # Null
    /\ Len(captures) = 1 /\ Len(finished) = 1 /\ timer = "cleared"
    /\ finished[1].key = captures[1].key /\ finished[1].rt = captures[1].rt

\* C7: if the timeout fires before any key is captured, the reported result
\* has key, rt, chosen_side and accuracy all null, whatever correct_side is.
C7_NoResponseAllNull ==
    (Started /\ captures = <<>>) =>
        \A d \in Reported :
            /\ d.key = Null /\ d.rt = Null
            /\ d.chosen_side = Null /\ d.accuracy = Null

\* C7 witness: a timeout's result with no capture and a correct_side given.
C7_Witness ==
    /\ Started /\ captures = <<>> /\ timer = "fired" /\ Len(finished) = 1
    /\ listener = "removed"
    /\ trial.correct_side # Null

\* C8: for every range [lo, hi] with lo <= hi and every jitter bound J >= 0,
\* the reported final_left lies in [lo - J, hi + J] with left_jitter in
\* [-J, J], and likewise final_right with the right range and right_jitter.
C8_FinalWithinJitteredRange ==
    \A d \in Reported :
        LET J == trial.jitter
            l == trial.left_height_range
            r == trial.right_height_range
        IN  /\ (l[1] <= l[2] /\ J >= 0) =>
                 /\ d.left_jitter >= -J /\ d.left_jitter <= J
                 /\ d.final_left >= l[1] - J /\ d.final_left <= l[2] + J
            /\ (r[1] <= r[2] /\ J >= 0) =>
                 /\ d.right_jitter >= -J /\ d.right_jitter <= J
                 /\ d.final_right >= r[1] - J /\ d.final_right <= r[2] + J

\* C8 witness: a result at the top of the jittered left range and the bottom
\* of the jittered right range, the right range of zero width.
C8_Witness ==
    \E d \in Reported :
        /\ trial.jitter > 0
        /\ trial.left_height_range[1] < trial.left_height_range[2]
        /\ trial.right_height_range[1] = trial.right_height_range[2]
        /\ d.final_left = trial.left_height_range[2] + trial.jitter
        /\ d.final_right = trial.right_height_range[1] - trial.jitter

\* A configuration the specification calls a configuration error.
InvalidConfig(tr) ==
    \/ tr.left_height_range[1] > tr.left_height_range[2]
    \/ tr.right_height_range[1] > tr.right_height_range[2]
    \/ tr.jitter < 0
    \/ (tr.choices # NO_KEYS /\ Len(tr.choices) # 2)

\* C9: a trial with an inverted range, a negative jitter bound or enabled
\* choices that are not exactly two tokens is rejected at trial start: it
\* ends in an error with no listener registered, no timer scheduled and no
\* result reported.
C9_InvalidConfigRejected ==
    (pc # "constructed" /\ InvalidConfig(trial)) =>
        /\ pc = "threw"
        /\ listener = "none" /\ timer = "none" /\ keyboardListener = Undefined
        /\ finished = <<>>

\* C10: a trial with the NO_KEYS choices and no trial_duration is flagged as
\* a configuration error at trial start; it never awaits with neither a
\* listener nor a timer active.
C10_UnresolvableConfigFlagged ==
    (pc # "constructed" /\ trial.choices = NO_KEYS /\ trial.trial_duration = Null) =>
        /\ pc = "threw"
        /\ ~(Started /\ listener = "none" /\ timer = "none")


\* C11: every step that reports a result (from the response callback or
\* from the timer callback) leaves no keyboard listener active and no timer
\* pending in the state where the result is reported, and the releases do
\* not fail even when the listener has already fired or the timer has
\* already elapsed: the trial stays in its normal course.
C11_ReleasedWhenReported ==
    [][(Started /\ finished' # finished) =>
         /\ listener' # "active"
         /\ timer' # "pending"
         /\ pc' = "awaiting"
         /\ display_element' = ""]_vars

\* C11 witness: the timer's report of a trial whose listener was still
\* active, and which end_trial cancelled.
C11_Witness ==
    /\ Started /\ Len(finished) = 1 /\ captures = <<>>
    /\ keyboardListener # Undefined /\ listener = "removed" /\ timer = "fired"
    /\ display_element = ""


\* The data fields both plugins' header documentation lists.
DocumentedFields ==
    {"rt", "key", "chosen_side", "correct_side", "accuracy", "final_left",
     "final_right", "left_color", "right_color", "left_jitter", "right_jitter",
     "prompt"}

\* C12: the result record reported by each plugin contains exactly the data
\* fields its header documentation lists, with prompt, correct_side,
\* left_color and right_color equal to the values of the trial configuration.
C12_DocumentedFieldsReported ==
    \A d \in Reported :
        /\ DOMAIN d = DocumentedFields
        /\ {"left_color", "right_color"} \subseteq DOMAIN trial
        /\ d.prompt = trial.prompt
        /\ d.correct_side = trial.correct_side
        /\ d.left_color = trial.left_color
        /\ d.right_color = trial.right_color


\* C13: with response_ends_trial false and trial_duration null, a key
\* response is captured and stored in the response slot (the first one), no
\* timer exists, and no sequence of events makes the trial report a result.
C13_NeverReports ==
    (Started /\ ~trial.response_ends_trial /\ trial.trial_duration = Null) =>
        /\ finished = <<>>
        /\ timer = "none"
        /\ display_element = "stimulus"
        /\ captures # <<>> => response = captures[1]
        /\ captures = <<>> => response = [rt |-> Null, key |-> Null]

\* C13 witness: a key was captured and stored, and nothing is reported.
C13_Witness ==
    /\ Started /\ ~trial.response_ends_trial /\ trial.trial_duration = Null
    /\ Len(captures) >= 1 /\ response.key # Null /\ response = captures[1]
    /\ listener = "removed" /\ finished = <<>>


\* C14: whenever trial_duration is non-null, a started trial eventually
\* reports its result, whatever choices and response_ends_trial are and
\* whether or not a key is pressed, given that the host fires every timer
\* that stays scheduled.
C14_DurationEventuallyReports ==
    (Started /\ trial.trial_duration # Null) ~> (finished # <<>>)

\* C14 witness: a trial with no listener at all, reported by its timer.
C14_Witness ==
    /\ Started /\ trial.trial_duration # Null /\ trial.choices = NO_KEYS
    /\ listener = "none" /\ timer = "fired" /\ Len(finished) = 1


\* The stimulus outcome held by the closure of trial().
StimulusOutcome ==
    <<left_height, right_height, left_jitter, right_jitter, final_left, final_right>>

\* C15: the stimulus outcome is fixed at trial start: no key response and no
\* timeout changes it, final_left = left_height + left_jitter and
\* final_right = right_height + right_jitter, and every reported result
\* carries exactly these final_left, final_right, left_jitter, right_jitter.
C15_StimulusFixedAtStart ==
    [][Started =>
         /\ StimulusOutcome' = StimulusOutcome
         /\ final_left = left_height + left_jitter
         /\ final_right = right_height + right_jitter
         /\ \A i \in DOMAIN finished' :
              /\ finished'[i].final_left = left_height + left_jitter
              /\ finished'[i].final_right = right_height + right_jitter
              /\ finished'[i].left_jitter = left_jitter
              /\ finished'[i].right_jitter = right_jitter]_vars

\* C15 witness: a result reported after a key response and the timeout, with
\* a non-zero jitter on each side.
C15_Witness ==
    /\ Started /\ Len(captures) = 1 /\ timer = "fired" /\ Len(finished) = 1
    /\ left_jitter # 0 /\ right_jitter # 0 /\ left_jitter # right_jitter
    /\ finished[1].final_left = left_height + left_jitter
    /\ finished[1].final_right = right_height + right_jitter


\* The result fields the two plugins have in common, colour and image
\* parameters apart.
SharedResult(d) ==
    [rt |-> d.rt, key |-> d.key, chosen_side |-> d.chosen_side,
     correct_side |-> d.correct_side, accuracy |-> d.accuracy,
     final_left |-> d.final_left, final_right |-> d.final_right,
     left_jitter |-> d.left_jitter, right_jitter |-> d.right_jitter]

\* C16: given the same configuration (colour and image parameters apart),
\* the same sampled heights and jitters and the same key-press and timeout
\* events, the bar trial and the image trial are in the same control state
\* after every step, have reported the same number of results, and their
\* results agree on rt, key, chosen_side, correct_side, accuracy, final_left,
\* final_right, left_jitter and right_jitter.
C16_BarAndImageAgree ==
    /\ twin.pc = pc
    /\ twin.listener = listener /\ twin.timer = timer
    /\ twin.keyboardListener = keyboardListener
    /\ twin.response = response
    /\ twin.display_element = display_element
    /\ Len(twin.finished) = Len(finished)
    /\ \A i \in DOMAIN finished :
          SharedResult(twin.finished[i]) = SharedResult(finished[i])

\* C16 witness: both trials ended by the same key press, each with its own
\* record (colours in one, images in the other), scored and jittered.
C16_Witness ==
    /\ Started /\ twin.pc = "awaiting"
    /\ Len(finished) = 1 /\ Len(twin.finished) = 1 /\ Len(captures) = 1
    /\ timer = "cleared"
    /\ "left_color" \in DOMAIN finished[1]
    /\ "left_image" \in DOMAIN twin.finished[1]
    /\ finished[1].accuracy = Some(0) /\ finished[1].left_jitter # 0


\* C17: in every reachable state of a trial and in every reported result,
\* rt is null if and only if key is null: the response slot is replaced as a
\* whole by a capture, and only while key is still null.
C17_ResponseAllOrNothing ==
    /\ (response.rt = Null) <=> (response.key = Null)
    /\ captures = <<>> => response.key = Null
    /\ \A d \in Reported : (d.rt = Null) <=> (d.key = Null)

\* C17 witness: a filled slot after two captures, with one result reported
\* empty (by the timer, before the first capture) and one reported filled.
C17_Witness ==
    /\ Started /\ Len(captures) = 2
    /\ response.key # Null /\ response.rt # Null /\ response = captures[1]
    /\ \E d \in Reported : d.key = Null /\ d.rt = Null
    /\ \E d \in Reported : d.key # Null /\ d.rt # Null

====
